---- MODULE Spec2Model ----
(***************************************************************************)
(* Model of turf-inside (src/index.js): the ring test inRing and the       *)
(* exported inside(point, polygon).                                        *)
(*                                                                         *)
(* Coordinates are small integers.  On such inputs every product and sum   *)
(* of line 111 is exact in IEEE double arithmetic, and the one division    *)
(* is either exact or differs from every integer by far more than a        *)
(* rounding error, so the comparisons of lines 112 and 116 agree with the  *)
(* comparisons of the exact rational value.  The quotient is therefore     *)
(* kept as a fraction num/den (plus an offset) and compared by cross       *)
(* multiplication; den = 0 gives NaN (0/0) or an infinity, as in IEEE.     *)
(*                                                                         *)
(* Vertex indexes are the source's 0-based indexes; ring[i] of the source  *)
(* is At(ring, i).                                                         *)
(***************************************************************************)
EXTENDS Integers, Sequences, FiniteSets

VARIABLES pt, ring, run, pc, geom, polys, i, k, insidePoly, inHole

vars == <<pt, ring, run, pc, geom, polys, i, k, insidePoly, inHole>>

ringVars == <<ring, run>>

insideVars == <<geom, polys, i, k, insidePoly, inHole>>

(***************************************************************************)
(* Bounds of the input domains.                                            *)
(***************************************************************************)
MaxX == 3

MaxY == 2

MaxLen == 4

SmallX == 2

SmallY == 2

SmallLen == 3

GenX == 2

GenLevels == 1

GenLen == 3

MaxSide == 2

MaxRings == 3

(***************************************************************************)
(* Points and rings: pt is [x,y] and ring is [[x,y], [x,y],..].            *)
(***************************************************************************)
X(v) == v[1]

Y(v) == v[2]

Grid(mx, my) == (0..mx) \X (0..my)

RingsOver(V, lo, hi) == UNION {[1..n -> V] : n \in lo..hi}

At(r, idx) == r[idx + 1]

InRange(r, idx) == idx >= 0 /\ idx < Len(r)

(***************************************************************************)
(* inRing, lines 94-128.                                                   *)
(***************************************************************************)
Edge(r, ii, jj) ==
    [xi |-> X(At(r, ii)), yi |-> Y(At(r, ii)),
     xj |-> X(At(r, jj)), yj |-> Y(At(r, jj))]

Maxx(e) == IF e.xi < e.xj THEN e.xj ELSE e.xi

Minx(e) == IF e.xi < e.xj THEN e.xi ELSE e.xj

Maxy(e) == IF e.yi < e.yj THEN e.yj ELSE e.yi

Miny(e) == IF e.yi < e.yj THEN e.yi ELSE e.yj

HorizontalHit(p, e) ==
    e.yi = e.yj /\ e.yi = Y(p) /\ Maxx(e) >= X(p) /\ Minx(e) <= X(p)

RangeReject(p, e) == Maxy(e) < Y(p) \/ Miny(e) > Y(p)

\* (xj - xi) * (pt[1] - yi) / (yj - yi) + xi, kept as num / den + off
Intersect(p, e) ==
    [num |-> (e.xj - e.xi) * (Y(p) - e.yi), den |-> e.yj - e.yi, off |-> e.xi]

IsNaN(q) == q.den = 0 /\ q.num = 0

\* pt[0] === intersect: never true of NaN or of an infinity
EqIntersect(px, q) == q.den # 0 /\ (px - q.off) * q.den = q.num

\* pt[0] < intersect, taking den = 0 to give 0 although 0/0 is NaN
LtIntersectNaNAsZero(px, q) ==
    IF q.den > 0 THEN (px - q.off) * q.den < q.num
    ELSE IF q.den < 0 THEN (px - q.off) * q.den > q.num
    ELSE px < q.off

\* pt[0] < intersect, forgetting that dividing by a negative flips the order
LtIntersectUnsigned(px, q) ==
    IF q.den # 0 THEN (px - q.off) * q.den < q.num
    ELSE q.num > 0

\* pt[0] < intersect: false of NaN, true of +Infinity, false of -Infinity
LtIntersect(px, q) ==
    IF q.den > 0 THEN (px - q.off) * q.den < q.num
    ELSE IF q.den < 0 THEN (px - q.off) * q.den > q.num
    ELSE q.num > 0

SkipNext(p, e) == e.yi = Y(p)

\* the loop test written with <= instead of <
LoopCondInclusive(ii, n) == ii <= n

LoopCond(ii, n) == ii < n

\* var isInside = false; for (var i = 0, j = ring.length - 1; ...
\* examined, flipped, divided and reads record what the run did.
LoopInit(r) ==
    [i |-> 0, j |-> Len(r) - 1, isInside |-> FALSE,
     early |-> FALSE, thrown |-> FALSE, result |-> FALSE,
     examined |-> <<>>, flipped |-> {}, divided |-> {}, reads |-> {}]

\* the for statement's update j = i++, after `extra` further i++ of the body
Advance(s, extra) == [s EXCEPT !.i = s.i + extra + 1, !.j = s.i + extra]

ReturnEarly(s) == [s EXCEPT !.early = TRUE, !.result = TRUE]

RECURSIVE Loop(_, _, _)
Loop(p, r, s) ==
    IF ~LoopCond(s.i, Len(r))
    THEN [s EXCEPT !.result = s.isInside]
    ELSE
      LET s1 == [s EXCEPT !.reads = s.reads \cup {s.i, s.j},
                          !.examined = Append(s.examined, <<s.i, s.j>>)]
      IN
      IF ~InRange(r, s.i) \/ ~InRange(r, s.j)
      THEN [s1 EXCEPT !.thrown = TRUE]
      ELSE
        LET e == Edge(r, s.i, s.j)
            q == Intersect(p, e)
            s2 == [s1 EXCEPT !.divided = s1.divided \cup {<<s.i, s.j>>}]
        IN
        IF HorizontalHit(p, e) THEN ReturnEarly(s1)
        ELSE IF RangeReject(p, e) THEN Loop(p, r, Advance(s1, 0))
        ELSE IF EqIntersect(X(p), q) THEN ReturnEarly(s2)
        ELSE IF LtIntersect(X(p), q)
        THEN LET s3 == [s2 EXCEPT !.isInside = ~s2.isInside,
                                  !.flipped = s2.flipped \cup {s.i}]
             IN Loop(p, r, Advance(s3, IF SkipNext(p, e) THEN 1 ELSE 0))
        ELSE Loop(p, r, Advance(s2, 0))

InRingRun(p, r) == Loop(p, r, LoopInit(r))

InRing(p, r) == InRingRun(p, r).result

(***************************************************************************)
(* The call of inRing as one step.                                         *)
(***************************************************************************)
NoRun == LoopInit(<<>>)

NoGeom == [type |-> "MultiPolygon", coordinates |-> <<>>]

InsideIdle ==
    /\ geom = NoGeom
    /\ polys = <<>>
    /\ i = 0
    /\ k = 0
    /\ insidePoly = FALSE
    /\ inHole = FALSE

RingInit(P, R) ==
    /\ pt \in P
    /\ ring \in R
    /\ run = NoRun
    /\ pc = "call"
    /\ InsideIdle

InitRing == RingInit(Grid(MaxX, MaxY), RingsOver(Grid(MaxX, MaxY), 0, MaxLen))

InitSmall ==
    RingInit(Grid(SmallX, SmallY), RingsOver(Grid(SmallX, SmallY), 0, SmallLen))

\* vertices on even levels, the point on an odd level between them
GenVertices == {v \in Grid(GenX, 2 * GenLevels) : Y(v) % 2 = 0}

GenPoints == {v \in Grid(GenX, 2 * GenLevels) : Y(v) % 2 = 1}

InitGeneral == RingInit(GenPoints, RingsOver(GenVertices, 3, GenLen))

InRingCall ==
    /\ pc = "call"
    /\ run' = InRingRun(pt, ring)
    /\ pc' = "done"
    /\ UNCHANGED <<pt, ring, insideVars>>

NextRing == InRingCall

SpecRing == InitRing /\ [][NextRing]_vars

SpecSmall == InitSmall /\ [][NextRing]_vars

SpecGeneral == InitGeneral /\ [][NextRing]_vars

(***************************************************************************)
(* inside(point, polygon), lines 65-91.  The input rings are closed        *)
(* axis-parallel squares [0,b] x [0,b]; a polygon is an outer ring and     *)
(* its holes, and an input holds at most MaxRings rings in all.            *)
(***************************************************************************)
Square(b) == <<(<<0, 0>>), (<<b, 0>>), (<<b, b>>), (<<0, b>>), (<<0, 0>>)>>

Squares == {Square(b) : b \in 1..MaxSide}

PolygonsOf(n) == [1..n -> Squares]

RECURSIVE MultiPolygonsOf(_)
MultiPolygonsOf(n) ==
    IF n = 0 THEN {<<>>}
    ELSE UNION {{<<p>> \o rest : p \in PolygonsOf(h), rest \in MultiPolygonsOf(n - h)} :
                h \in 1..n}

Geometries ==
    {[type |-> "Polygon", coordinates |-> c] :
        c \in UNION {PolygonsOf(n) : n \in 1..MaxRings}}
    \cup
    {[type |-> "MultiPolygon", coordinates |-> c] :
        c \in UNION {MultiPolygonsOf(n) : n \in 0..MaxRings}}

\* normalize to multipolygon, lines 67 and 70
Normalize(g) == IF g.type = "Polygon" THEN <<g.coordinates>> ELSE g.coordinates

\* var k = 1, line 78
FirstHole == 1

\* the hole result ignored
AfterHolesAlways(hole, inside) == TRUE

\* if(!inHole) insidePoly = true, line 86
AfterHoles(hole, inside) == IF ~hole THEN TRUE ELSE inside

InitInside ==
    /\ pt \in Grid(MaxSide, MaxSide)
    /\ geom \in Geometries
    /\ polys = <<>>
    /\ i = 0
    /\ k = 0
    /\ insidePoly = FALSE
    /\ inHole = FALSE
    /\ pc = "entry"
    /\ ring = <<>>
    /\ run = NoRun

\* lines 67-73
InsideEntry ==
    /\ pc = "entry"
    /\ polys' = Normalize(geom)
    /\ insidePoly' = FALSE
    /\ i' = 0
    /\ pc' = "polys"
    /\ UNCHANGED <<pt, geom, k, inHole, ringVars>>

\* line 74 true, line 76 false, line 88
OuterMiss ==
    /\ pc = "polys"
    /\ i < Len(polys) /\ ~insidePoly
    /\ ~InRing(pt, At(At(polys, i), 0))
    /\ i' = i + 1
    /\ UNCHANGED <<pt, geom, polys, k, insidePoly, inHole, pc, ringVars>>

\* line 74 true, line 76 true, lines 77-78
OuterHit ==
    /\ pc = "polys"
    /\ i < Len(polys) /\ ~insidePoly
    /\ InRing(pt, At(At(polys, i), 0))
    /\ inHole' = FALSE
    /\ k' = FirstHole
    /\ pc' = "holes"
    /\ UNCHANGED <<pt, geom, polys, i, insidePoly, ringVars>>

\* lines 80-85, one turn of the hole loop
HoleTest ==
    /\ pc = "holes"
    /\ k < Len(At(polys, i)) /\ ~inHole
    /\ inHole' = IF InRing(pt, At(At(polys, i), k)) THEN TRUE ELSE inHole
    /\ k' = k + 1
    /\ UNCHANGED <<pt, geom, polys, i, insidePoly, pc, ringVars>>

\* line 80 false, lines 86-88
HolesDone ==
    /\ pc = "holes"
    /\ ~(k < Len(At(polys, i)) /\ ~inHole)
    /\ insidePoly' = AfterHoles(inHole, insidePoly)
    /\ i' = i + 1
    /\ pc' = "polys"
    /\ UNCHANGED <<pt, geom, polys, k, inHole, ringVars>>

\* line 74 false, line 90
InsideReturn ==
    /\ pc = "polys"
    /\ ~(i < Len(polys) /\ ~insidePoly)
    /\ pc' = "returned"
    /\ UNCHANGED <<pt, geom, polys, i, k, insidePoly, inHole, ringVars>>

NextInside ==
    \/ InsideEntry
    \/ OuterMiss
    \/ OuterHit
    \/ HoleTest
    \/ HolesDone
    \/ InsideReturn

SpecInside == InitInside /\ [][NextInside]_vars

(***************************************************************************)
(* Geometry used to state the properties.                                  *)
(***************************************************************************)
Prev(idx, n) == (idx + n - 1) % n

PrevVertex(r, idx) == At(r, Prev(idx, Len(r)))

Indexes(r) == 0..(Len(r) - 1)

Cross(a, b, c) == (X(b) - X(a)) * (Y(c) - Y(a)) - (Y(b) - Y(a)) * (X(c) - X(a))

Within(lo, v, hi) == (lo <= v /\ v <= hi) \/ (hi <= v /\ v <= lo)

OnSegment(p, a, b) ==
    /\ Cross(a, b, p) = 0
    /\ Within(X(a), X(p), X(b))
    /\ Within(Y(a), Y(p), Y(b))

OnBoundary(p, r) == \E idx \in Indexes(r) : OnSegment(p, At(r, idx), PrevVertex(r, idx))

\* the segments ab and cd have a point in common
SegmentsMeet(a, b, c, d) ==
    \/ /\ Cross(c, d, a) * Cross(c, d, b) < 0
       /\ Cross(a, b, c) * Cross(a, b, d) < 0
    \/ OnSegment(a, c, d)
    \/ OnSegment(b, c, d)
    \/ OnSegment(c, a, b)
    \/ OnSegment(d, a, b)

\* a proper polygon: distinct vertices, no straight or reversed corner, and
\* no two edges meeting except neighbours at their common vertex
Simple(r) ==
    /\ Len(r) >= 3
    /\ \A m, n \in Indexes(r) : m # n => At(r, m) # At(r, n)
    /\ \A m \in Indexes(r) :
          Cross(PrevVertex(r, m), At(r, m), At(r, (m + 1) % Len(r))) # 0
    /\ \A m, n \in Indexes(r) :
          (m # n /\ Prev(m, Len(r)) # n /\ Prev(n, Len(r)) # m)
              => ~SegmentsMeet(At(r, m), PrevVertex(r, m), At(r, n), PrevVertex(r, n))

Convex(r) ==
    /\ Len(r) >= 3
    /\ \E s \in {1, -1} : \A idx \in Indexes(r) :
          \A m \in Indexes(r) \ {idx, Prev(idx, Len(r))} :
              s * Cross(PrevVertex(r, idx), At(r, idx), At(r, m)) > 0

StrictlyInside(p, r) ==
    \E s \in {1, -1} : \A idx \in Indexes(r) :
        s * Cross(PrevVertex(r, idx), At(r, idx), p) > 0

OutsideBox(p, r) ==
    \/ \A idx \in Indexes(r) : X(p) < X(At(r, idx))
    \/ \A idx \in Indexes(r) : X(p) > X(At(r, idx))
    \/ \A idx \in Indexes(r) : Y(p) < Y(At(r, idx))
    \/ \A idx \in Indexes(r) : Y(p) > Y(At(r, idx))

Closed(r) == Append(r, At(r, 0))

Rotate(r, t) == [m \in 1..Len(r) |-> At(r, (m - 1 + t) % Len(r))]

GeneralPosition(p, r) == \A idx \in Indexes(r) : Y(At(r, idx)) # Y(p)

\* the ray from p toward +x crosses the segment ab strictly inside it
Crosses(p, a, b) ==
    LET lo == IF Y(a) < Y(b) THEN a ELSE b
        hi == IF Y(a) < Y(b) THEN b ELSE a
    IN Y(lo) < Y(p) /\ Y(p) < Y(hi) /\ Cross(lo, hi, p) > 0

CrossingEdges(p, r) == {idx \in Indexes(r) : Crosses(p, At(r, idx), PrevVertex(r, idx))}

Done == pc = "done"

\* C1: a point on an edge of a ring of at least 3 vertices (endpoints
\* included) is reported inside; stated here of proper polygons only.
C1_BoundaryIsInside ==
    (Done /\ Simple(ring) /\ OnBoundary(pt, ring)) => run.result = TRUE

\* C2: a point strictly inside a convex ring is reported inside, whatever
\* the orientation and the starting vertex of the ring.
C2_ConvexInteriorIsInside ==
    (Done /\ Convex(ring) /\ StrictlyInside(pt, ring)) => run.result = TRUE

\* C3: a point outside the bounding box of a ring of at least 3 vertices is
\* reported outside; stated here of proper polygons only.
C3_OutsideBoxIsOutside ==
    (Done /\ Simple(ring) /\ OutsideBox(pt, ring)) => run.result = FALSE

\* C4: inside returns true exactly when some polygon of the normalized list
\* has the point in its outer ring and in none of its holes.
C4_OuterMinusHoles ==
    pc = "returned" =>
        LET ps == IF geom.type = "Polygon" THEN <<geom.coordinates>>
                  ELSE geom.coordinates
        IN insidePoly <=>
              \E p \in 1..Len(ps) :
                  /\ InRing(pt, ps[p][1])
                  /\ \A h \in 2..Len(ps[p]) : ~InRing(pt, ps[p][h])

\* C4 happens: the first polygon has the point in a hole and a later
\* polygon makes the result true.
C4_Witness ==
    /\ pc = "returned"
    /\ insidePoly
    /\ Len(polys) >= 2
    /\ InRing(pt, polys[1][1])
    /\ \E h \in 2..Len(polys[1]) : InRing(pt, polys[1][h])

\* C5: a ring of at least 3 vertices whose last vertex differs from its
\* first gives the same result with its first vertex appended; stated here
\* of proper polygons only.
C5_ClosingPointIrrelevant ==
    (Done /\ Simple(ring) /\ At(ring, Len(ring) - 1) # At(ring, 0))
        => run.result = InRing(pt, Closed(ring))

\* C6: in a run that does not return early, the two edges at a vertex lying
\* on the ray to the right of the point flip the parity at most once;
\* stated here of proper polygons only.
C6_VertexCountedOnce ==
    (Done /\ Simple(ring) /\ ~run.early) =>
        \A v \in Indexes(ring) :
            (Y(At(ring, v)) = Y(pt) /\ X(At(ring, v)) > X(pt))
                => ~(v \in run.flipped /\ ((v + 1) % Len(ring)) \in run.flipped)

\* C7: inRing returns a boolean for a ring of any length: the loop index
\* strictly increases, each edge is examined at most once, only indexes
\* 0..n-1 are read, and there are at most n iterations.
C7_TerminatesInRange ==
    Done =>
        /\ ~run.thrown
        /\ run.result \in BOOLEAN
        /\ run.reads \subseteq Indexes(ring)
        /\ Len(run.examined) <= Len(ring)
        /\ \A m \in 1..(Len(run.examined) - 1) :
              run.examined[m][1] < run.examined[m + 1][1]
        /\ \A m \in 1..Len(run.examined) :
              run.examined[m][2] = Prev(run.examined[m][1], Len(ring))
        /\ (run.early \/ run.i >= Len(ring))

\* C7 happens: the extra index advance is taken on the last edge.
C7_Witness ==
    /\ Done
    /\ Simple(ring)
    /\ ~run.early
    /\ (Len(ring) - 1) \in run.flipped
    /\ run.i = Len(ring) + 1

\* C8: for a point whose y differs from every vertex y and which is on no
\* edge, the result is the parity of the number of edges the ray crosses.
C8_EvenOdd ==
    (Done /\ Len(ring) >= 3 /\ GeneralPosition(pt, ring) /\ ~OnBoundary(pt, ring))
        => (run.result <=> (Cardinality(CrossingEdges(pt, ring)) % 2 = 1))

\* C8 happens: one crossing to the right, the point is reported inside.
C8_Witness ==
    /\ Done
    /\ Len(ring) >= 3
    /\ GeneralPosition(pt, ring)
    /\ ~OnBoundary(pt, ring)
    /\ Cardinality(CrossingEdges(pt, ring)) = 1
    /\ run.result = TRUE

C10_RotationInvariant ==
    (Done /\ Simple(ring)) =>
        \A t \in 1..(Len(ring) - 1) : InRing(pt, Rotate(ring, t)) = run.result

====
